---- MODULE Spec2Model ----
(***************************************************************************)
(* Verification model of the determinant finder:                           *)
(*   src/entities/matrix.py                  class Matrix                  *)
(*   src/entities/determinant_calculator.py  class DeterminantCalculator   *)
(*                                                                         *)
(* Python lists are mutable objects that can be shared, so lists live on   *)
(* a heap (a sequence of list objects, the address of a list being its     *)
(* index) and a list of lists holds references to its rows.  Numbers are   *)
(* exact decimal-scaled rationals n/d * 10^e: on the small inputs          *)
(* enumerated here the IEEE double arithmetic of the program agrees with   *)
(* exact arithmetic up to rounding far below the program's 1e-10           *)
(* threshold.                                                              *)
(***************************************************************************)
EXTENDS Integers, Sequences, FiniteSets, TLC

(***************************************************************************)
(* Bounds of the model.                                                    *)
(***************************************************************************)
\* largest row/column count of a calculator input
MaxN == 3
\* calculator inputs have entries in -MaxVal..MaxVal
MaxVal == 1
\* largest row count and row length of the arbitrary raw data given to Matrix(...)
MaxRaw == 2
\* largest row and column count of the well-formed data given to Matrix(...)
MaxDim == 3
\* number of Matrix method calls made after construction
MaxOps == 2
\* largest row count of the matrices whose results are compared with those of
\* related matrices
MaxRel == 2

(***************************************************************************)
(* Python values.  A value is a 4-tuple <<tag, n, d, e>>:                  *)
(*   <<"num", n, d, e>>  the int or float n/d * 10^e, in normal form       *)
(*                       (d >= 1 coprime to n and to 10, 10 not dividing   *)
(*                       n; zero is <<"num", 0, 1, 0>>)                    *)
(*   <<"inf", 1, 1, 0>>  float('inf'), an instance of float                *)
(*   <<"str", 0, 1, 0>>  a str, an instance of neither int nor float       *)
(*   <<"ref", a, 1, 0>>  a reference to the list object at heap address a  *)
(*   <<"none", 0, 1, 0>> None                                              *)
(***************************************************************************)
IAbs(x) == IF x < 0 THEN -x ELSE x

RECURSIVE Gcd(_, _)
Gcd(a, b) == IF b = 0 THEN a ELSE Gcd(b, a % b)

RECURSIVE Pow10(_)
Pow10(k) == IF k = 0 THEN 1 ELSE 10 * Pow10(k - 1)

RECURSIVE NormNum(_, _, _)
NormNum(n, d, e) ==
    IF n % 10 = 0 THEN NormNum(n \div 10, d, e + 1) ELSE <<"num", n, d, e>>

RECURSIVE NormDen(_, _, _)
NormDen(n, d, e) ==
    IF d % 2 = 0 THEN NormDen(n * 5, d \div 2, e - 1)
    ELSE IF d % 5 = 0 THEN NormDen(n * 2, d \div 5, e - 1)
    ELSE NormNum(n, d, e)

\* the number n/d * 10^e (d # 0) in normal form
Float(n, d, e) ==
    IF n = 0 THEN <<"num", 0, 1, 0>>
    ELSE LET s == IF d < 0 THEN -1 ELSE 1
             g == Gcd(IAbs(n), IAbs(d))
         IN  NormDen((s * n) \div g, (s * d) \div g, e)

Num(n) == Float(n, 1, 0)
Str == <<"str", 0, 1, 0>>
Inf == <<"inf", 1, 1, 0>>
None == <<"none", 0, 1, 0>>
Ref(a) == <<"ref", a, 1, 0>>

\* isinstance(x, list)
IsList(x) == x[1] = "ref"
\* isinstance(x, (int, float))
IsNumber(x) == x[1] \in {"num", "inf"}
\* a finite real number
IsFinite(x) == x[1] = "num"

Min2(a, b) == IF a < b THEN a ELSE b

\* x + y, x - y, x * y, x / y and abs(x) on finite numbers
Add(x, y) ==
    IF x[2] = 0 THEN y
    ELSE IF y[2] = 0 THEN x
    ELSE LET e == Min2(x[4], y[4])
             a == x[2] * Pow10(x[4] - e)
             b == y[2] * Pow10(y[4] - e)
         IN  Float(a * y[3] + b * x[3], x[3] * y[3], e)

Neg(x) == <<"num", -x[2], x[3], x[4]>>
Sub(x, y) == Add(x, Neg(y))
Mul(x, y) == Float(x[2] * y[2], x[3] * y[3], x[4] + y[4])
Div(x, y) == Float(x[2] * y[3], x[3] * y[2], x[4] - y[4])
Abs(x) == <<"num", IAbs(x[2]), x[3], x[4]>>

\* a * 10^k < b for integers a >= 0, b >= 0, k >= 0, without forming a * 10^k
RECURSIVE LtScaled(_, _, _)
LtScaled(a, k, b) ==
    IF k = 0 THEN a < b
    ELSE IF a >= b THEN FALSE
    ELSE LtScaled(a, k - 1, (b + 9) \div 10)

\* x < y on finite numbers x >= 0, y >= 0
LtNonNeg(x, y) ==
    IF y[2] = 0 THEN FALSE
    ELSE IF x[2] = 0 THEN TRUE
    ELSE LET a == x[2] * y[3]
             b == y[2] * x[3]
         IN  IF x[4] >= y[4] THEN LtScaled(a, x[4] - y[4], b)
             ELSE ~LtScaled(b, y[4] - x[4], a + 1)

\* x < y and x > y on finite numbers
Lt(x, y) ==
    IF x[2] < 0 /\ y[2] >= 0 THEN TRUE
    ELSE IF x[2] >= 0 /\ y[2] < 0 THEN FALSE
    ELSE IF x[2] < 0 THEN LtNonNeg(Abs(y), Abs(x))
    ELSE LtNonNeg(x, y)

Gt(x, y) == Lt(y, x)

\* the literal 1e-10
Eps == <<"num", 1, 1, -10>>

(***************************************************************************)
(* The heap.  h is a sequence of list objects, a list object a sequence    *)
(* of values.                                                              *)
(***************************************************************************)
\* a new list object holding items
Alloc(h, items) == [h |-> Append(h, items), a |-> Len(h) + 1]

\* [row[:] for row in data]: a new copy of every row, then the new outer list
RECURSIVE CopyRowsFrom(_, _, _, _)
CopyRowsFrom(h, src, r, acc) ==
    IF r > Len(h[src]) THEN Alloc(h, acc)
    ELSE LET c == Alloc(h, h[h[src][r][2]])
         IN  CopyRowsFrom(c.h, src, r + 1, Append(acc, Ref(c.a)))

\* a mutant: the same list object instead of a copy
AliasRows(h, src) == [h |-> h, a |-> src]

\* a mutant: a new outer list that shares the rows
ShallowRows(h, src) == Alloc(h, h[src])

CopyRows(h, src) == CopyRowsFrom(h, src, 1, <<>>)

\* the contents of the list of lists at address a, as a sequence of rows
Rows(h, a) == [r \in 1..Len(h[a]) |-> h[h[a][r][2]]]

(***************************************************************************)
(* class Matrix.  An instance is a record [data, rows, cols] holding the   *)
(* fields _data (the address of a list of lists), _rows and _cols.  A      *)
(* method is an operator from the heap and its arguments to a record       *)
(* [h, status, msg, ...]: the heap after the call, "ok" or the exception   *)
(* raised with its message, and what the call returns.                     *)
(***************************************************************************)
NoMatrix == [data |-> 0, rows |-> 0, cols |-> 0]

\* a mutant: the row lengths are not compared
ValidateWithoutLengths(h, data) ==
    LET d == h[data]
    IN  IF Len(d) = 0 THEN "Matrix cannot be empty"
        ELSE IF \E r \in 1..Len(d) : ~IsList(d[r]) THEN "All rows must be lists"
        ELSE IF \E r \in 1..Len(d) : \E c \in 1..Len(h[d[r][2]]) :
                    ~IsNumber(h[d[r][2]][c])
             THEN "All elements must be numbers"
        ELSE ""

\* the message of the ValueError raised, or "" when data passes
Matrix_validate_matrix(h, data) ==
    LET d == h[data]
    IN  IF Len(d) = 0 THEN "Matrix cannot be empty"
        ELSE IF \E r \in 1..Len(d) : ~IsList(d[r]) THEN "All rows must be lists"
        ELSE IF \E r \in 1..Len(d) : Len(h[d[r][2]]) # Len(h[d[1][2]])
             THEN "All rows must have the same length"
        ELSE IF \E r \in 1..Len(d) : \E c \in 1..Len(h[d[r][2]]) :
                    ~IsNumber(h[d[r][2]][c])
             THEN "All elements must be numbers"
        ELSE ""

Matrix_init(h, data) ==
    LET err == Matrix_validate_matrix(h, data)
        c == CopyRows(h, data)
    IN  IF err # ""
        THEN [h |-> h, status |-> "ValueError", msg |-> err, mat |-> NoMatrix]
        ELSE [h |-> c.h, status |-> "ok", msg |-> "",
              mat |-> [data |-> c.a, rows |-> Len(h[data]),
                       cols |-> IF Len(h[data]) > 0 THEN Len(h[h[data][1][2]]) ELSE 0]]

\* a mutant: a matrix with spare columns passes for square
WideIsSquare(m) == m.rows <= m.cols

Matrix_is_square(m) == m.rows = m.cols

\* a mutant: the lower bounds are not checked
BelowUpperBounds(m, row, col) == row < m.rows /\ col < m.cols

\* 0 <= row < self._rows and 0 <= col < self._cols
InBounds(m, row, col) == 0 <= row /\ row < m.rows /\ 0 <= col /\ col < m.cols

\* the position in a list of length len that the Python index idx denotes
\* (a negative index counts from the end)
Pos(len, idx) == IF idx < 0 THEN len + idx + 1 ELSE idx + 1

Matrix_get_element(h, m, row, col) ==
    IF ~InBounds(m, row, col)
    THEN [h |-> h, status |-> "IndexError", msg |-> "Index out of bounds", val |-> None]
    ELSE LET r == h[m.data][Pos(Len(h[m.data]), row)][2]
         IN  [h |-> h, status |-> "ok", msg |-> "", val |-> h[r][Pos(Len(h[r]), col)]]

Matrix_set_element(h, m, row, col, value) ==
    IF ~InBounds(m, row, col)
    THEN [h |-> h, status |-> "IndexError", msg |-> "Index out of bounds", val |-> None]
    ELSE LET r == h[m.data][Pos(Len(h[m.data]), row)][2]
         IN  [h |-> [h EXCEPT ![r][Pos(Len(h[r]), col)] = value],
              status |-> "ok", msg |-> "", val |-> None]

\* a mutant: return self._data
ReturnData(h, m) == AliasRows(h, m.data)

Matrix_to_list(h, m) == CopyRows(h, m.data)

\* a mutant: the columns up to exclude_col are all dropped
RECURSIVE SubRowAfter(_, _, _, _)
SubRowAfter(src, exclude_col, j, row) ==
    IF j >= Len(src) THEN row
    ELSE SubRowAfter(src, exclude_col, j + 1,
                     IF j > exclude_col THEN Append(row, src[j + 1]) ELSE row)

\* the inner loop of get_submatrix: row i of _data without column exclude_col
RECURSIVE SubRow(_, _, _, _)
SubRow(src, exclude_col, j, row) ==
    IF j >= Len(src) THEN row
    ELSE SubRow(src, exclude_col, j + 1,
                IF j # exclude_col THEN Append(row, src[j + 1]) ELSE row)

\* the outer loop of get_submatrix: appends the kept rows to submatrix_data
RECURSIVE SubRows(_, _, _, _, _, _)
SubRows(h, m, exclude_row, exclude_col, i, sub) ==
    IF i >= m.rows THEN h
    ELSE IF i = exclude_row THEN SubRows(h, m, exclude_row, exclude_col, i + 1, sub)
    ELSE LET row == Alloc(h, SubRow(h[h[m.data][i + 1][2]], exclude_col, 0, <<>>))
             h2 == [row.h EXCEPT ![sub] = Append(@, Ref(row.a))]
         IN  SubRows(h2, m, exclude_row, exclude_col, i + 1, sub)

Matrix_get_submatrix(h, m, exclude_row, exclude_col) ==
    IF ~InBounds(m, exclude_row, exclude_col)
    THEN [h |-> h, status |-> "IndexError", msg |-> "Exclude indices out of bounds",
          mat |-> NoMatrix]
    ELSE LET sub == Alloc(h, <<>>)
             h2 == SubRows(sub.h, m, exclude_row, exclude_col, 0, sub.a)
         IN  Matrix_init(h2, sub.a)

(***************************************************************************)
(* State.                                                                  *)
(***************************************************************************)
VARIABLES
    heap,           \* the list objects
    input,          \* the raw data the caller built (kept for reference)
    data,           \* the address of the caller's list
    mats,           \* the Matrix instances constructed so far
    ret,            \* the last completed Matrix call: its arguments and its outcome
    nops,           \* Matrix method calls made so far
    pc,             \* position of the running calculator call
    fn,             \* the calculator function running
    matrix_data,    \* local matrix_data: the address of the working copy
    n,              \* local n
    i,              \* loop variable i of the elimination loop
    max_row,        \* local max_row
    row_swaps,      \* local row_swaps
    determinant,    \* local determinant
    steps,          \* local steps of calculate_with_steps
    divisors,       \* the divisors of the divisions the running call has made
    result          \* what each calculator function returned or raised

vars == <<heap, input, data, mats, ret, nops, pc, fn, matrix_data, n, i, max_row,
          row_swaps, determinant, steps, divisors, result>>

frameVars ==
    <<pc, fn, matrix_data, n, i, max_row, row_swaps, determinant, steps, divisors, result>>

Functions == {"calculate", "calculate_with_steps"}

NoResult == [status |-> "none", msg |-> "", val |-> None, steps |-> <<>>]
NoRet == [op |-> "", status |-> "none", msg |-> "", val |-> None,
          on |-> 0, row |-> 0, col |-> 0, arg |-> None]

(***************************************************************************)
(* The caller's data.  A raw row is [list |-> TRUE, items |-> the row] or  *)
(* [list |-> FALSE, items |-> <<v>>] for a row that is the scalar v.       *)
(***************************************************************************)
RECURSIVE BuildFrom(_, _, _, _)
BuildFrom(h, raw, r, acc) ==
    IF r > Len(raw) THEN Alloc(h, acc)
    ELSE IF raw[r].list
         THEN LET c == Alloc(h, raw[r].items)
              IN  BuildFrom(c.h, raw, r + 1, Append(acc, Ref(c.a)))
         ELSE BuildFrom(h, raw, r + 1, Append(acc, raw[r].items[1]))

\* the heap holding just the caller's data, and the address of its outer list
Build(raw) == BuildFrom(<<>>, raw, 1, <<>>)

ListRow(items) == [list |-> TRUE, items |-> items]

\* sequences of length len over S
SeqsOf(S, len) == [1..len -> S]

\* the R x C matrices with integer entries in -MaxVal..MaxVal
Entries == {Num(v) : v \in -MaxVal..MaxVal}
NumericMatrices(R, C) == {[r \in 1..R |-> ListRow(row[r])] : row \in SeqsOf(SeqsOf(Entries, C), R)}

\* the k x k identity matrix
Identity(k) == [r \in 1..k |-> ListRow([c \in 1..k |-> IF r = c THEN Num(1) ELSE Num(0)])]

\* the concrete scenarios of the specification
Scenario1 == <<ListRow(<<Num(1), Num(2)>>), ListRow(<<Num(3), Num(4)>>)>>
Scenario2 == <<ListRow(<<Num(2), Num(0), Num(0)>>), ListRow(<<Num(0), Num(3), Num(0)>>),
               ListRow(<<Num(0), Num(0), Num(4)>>)>>
Scenario3 == <<ListRow(<<Num(1), Num(2)>>), ListRow(<<Num(2), Num(4)>>)>>

\* calculator inputs: every matrix of up to MaxN rows and columns, and the scenarios
CalcInputs ==
    UNION {NumericMatrices(R, C) : R \in 1..MaxN, C \in 1..MaxN}
    \cup {Scenario1, Scenario2, Scenario3}

InitWith(raw) ==
    /\ input = raw
    /\ heap = Build(raw).h
    /\ data = Build(raw).a
    /\ mats = <<>>
    /\ ret = NoRet
    /\ nops = 0
    /\ pc = "idle"
    /\ fn = ""
    /\ matrix_data = 0
    /\ n = 0
    /\ i = 0
    /\ max_row = 0
    /\ row_swaps = 0
    /\ determinant = None
    /\ steps = <<>>
    /\ divisors = <<>>
    /\ result = [f \in Functions |-> NoResult]

Init == \E raw \in CalcInputs : InitWith(raw)

(***************************************************************************)
(* matrix = Matrix(data)                                                   *)
(***************************************************************************)
NewMatrix ==
    /\ mats = <<>>
    /\ ret.op \in {"", "validate_matrix_data"}
    /\ LET r == Matrix_init(heap, data)
       IN  /\ heap' = r.h
           /\ mats' = IF r.status = "ok" THEN <<r.mat>> ELSE mats
           /\ ret' = [op |-> "Matrix", status |-> r.status, msg |-> r.msg, val |-> None,
                      on |-> 0, row |-> 0, col |-> 0, arg |-> None]
    /\ UNCHANGED <<input, data, nops>>
    /\ UNCHANGED frameVars

(***************************************************************************)
(* DeterminantCalculator.calculate(matrix), one action per stage of the    *)
(* call.  The matrix passed is mats[1].                                    *)
(***************************************************************************)
\* matrix_data[r][c]
At(h, md, r, c) == h[h[md][r + 1][2]][c + 1]

\* a mutant: >= in place of >, the last of the largest entries wins
RECURSIVE FindMaxRowLast(_, _, _, _, _, _)
FindMaxRowLast(h, md, col, k, nn, mr) ==
    IF k >= nn THEN mr
    ELSE FindMaxRowLast(h, md, col, k + 1, nn,
             IF ~Lt(Abs(At(h, md, k, col)), Abs(At(h, md, mr, col))) THEN k ELSE mr)

\* the pivot search: max_row after the loop over k in range(k, n)
RECURSIVE calculate_FindMaxRow(_, _, _, _, _, _)
calculate_FindMaxRow(h, md, col, k, nn, mr) ==
    IF k >= nn THEN mr
    ELSE calculate_FindMaxRow(h, md, col, k + 1, nn,
             IF Gt(Abs(At(h, md, k, col)), Abs(At(h, md, mr, col))) THEN k ELSE mr)

\* matrix_data[a], matrix_data[b] = matrix_data[b], matrix_data[a]
SwapRows(h, md, a, b) ==
    [h EXCEPT ![md] = [@ EXCEPT ![a + 1] = h[md][b + 1], ![b + 1] = h[md][a + 1]]]

\* a mutant: += in place of -=
RECURSIVE ElimRowAdded(_, _, _, _, _, _, _)
ElimRowAdded(h, md, col, k, j, nn, factor) ==
    IF j >= nn THEN h
    ELSE ElimRowAdded(
             [h EXCEPT ![h[md][k + 1][2]][j + 1] =
                  Add(At(h, md, k, j), Mul(factor, At(h, md, col, j)))],
             md, col, k, j + 1, nn, factor)

\* for j in range(j, n): matrix_data[k][j] -= factor * matrix_data[i][j]
RECURSIVE calculate_ElimRow(_, _, _, _, _, _, _)
calculate_ElimRow(h, md, col, k, j, nn, factor) ==
    IF j >= nn THEN h
    ELSE calculate_ElimRow(
             [h EXCEPT ![h[md][k + 1][2]][j + 1] =
                  Sub(At(h, md, k, j), Mul(factor, At(h, md, col, j)))],
             md, col, k, j + 1, nn, factor)

\* for k in range(k, n): eliminate matrix_data[k][col] unless it is within 1e-10 of zero;
\* the state is [h, divs]: the heap and the divisors of the divisions made
RECURSIVE calculate_ElimCol(_, _, _, _, _)
calculate_ElimCol(hd, md, col, k, nn) ==
    IF k >= nn THEN hd
    ELSE IF Gt(Abs(At(hd.h, md, k, col)), Eps)
         THEN calculate_ElimCol(
                  [h |-> calculate_ElimRow(hd.h, md, col, k, col, nn,
                             Div(At(hd.h, md, k, col), At(hd.h, md, col, col))),
                   divs |-> Append(hd.divs, At(hd.h, md, col, col))],
                  md, col, k + 1, nn)
         ELSE calculate_ElimCol(hd, md, col, k + 1, nn)

\* for i in range(k, n): determinant *= matrix_data[i][i]
RECURSIVE calculate_Product(_, _, _, _, _)
calculate_Product(h, md, k, nn, det) ==
    IF k >= nn THEN det
    ELSE calculate_Product(h, md, k + 1, nn, Mul(det, At(h, md, k, k)))

\* a mutant: the sign is never adjusted
KeepSign(det, swaps) == det

\* if row_swaps % 2 == 1: determinant = -determinant
calculate_Sign(det, swaps) == IF swaps % 2 = 1 THEN Neg(det) ELSE det

Returned(v, st) == [status |-> "ok", msg |-> "", val |-> v, steps |-> st]
Raised(msg) == [status |-> "ValueError", msg |-> msg, val |-> None, steps |-> <<>>]

CanCall(f) ==
    /\ pc \in {"idle", "Done", "STOP", "Raised"}
    /\ Len(mats) >= 1
    /\ result[f].status = "none"

calculate_Call ==
    /\ CanCall("calculate")
    /\ fn' = "calculate"
    /\ IF ~Matrix_is_square(mats[1])
       THEN /\ pc' = "Raised"
            /\ result' = [result EXCEPT !["calculate"] =
                              Raised("Matrix must be square to calculate determinant")]
       ELSE /\ pc' = "Initial"
            /\ UNCHANGED result
    /\ matrix_data' = 0
    /\ n' = 0
    /\ i' = 0
    /\ max_row' = 0
    /\ row_swaps' = 0
    /\ determinant' = None
    /\ steps' = <<>>
    /\ divisors' = <<>>
    /\ UNCHANGED <<heap, input, data, mats, ret, nops>>

calculate_Initial ==
    /\ fn = "calculate" /\ pc = "Initial"
    /\ LET c == Matrix_to_list(heap, mats[1])
       IN  /\ heap' = c.h
           /\ matrix_data' = c.a
    /\ n' = mats[1].rows
    /\ determinant' = Num(1)
    /\ row_swaps' = 0
    /\ i' = 0
    /\ pc' = IF 0 < mats[1].rows THEN "PivotSelect" ELSE "DiagonalProduct"
    /\ UNCHANGED <<input, data, mats, ret, nops, fn, divisors, max_row, steps, result>>

calculate_PivotSelect ==
    /\ fn = "calculate" /\ pc = "PivotSelect"
    /\ max_row' = calculate_FindMaxRow(heap, matrix_data, i, i + 1, n, i)
    /\ pc' = IF max_row' # i THEN "RowSwap" ELSE "SingularityCheck"
    /\ UNCHANGED <<heap, input, data, mats, ret, nops, fn, divisors, matrix_data, n, i,
                   row_swaps, determinant, steps, result>>

calculate_RowSwap ==
    /\ fn = "calculate" /\ pc = "RowSwap"
    /\ heap' = SwapRows(heap, matrix_data, i, max_row)
    /\ row_swaps' = row_swaps + 1
    /\ pc' = "SingularityCheck"
    /\ UNCHANGED <<input, data, mats, ret, nops, fn, divisors, matrix_data, n, i, max_row,
                   determinant, steps, result>>

\* a mutant: the pivot is compared with 0
PivotIsZero(h, md, col) == At(h, md, col, col) = Num(0)

\* a mutant: the pivot of the first column is tested at every column
FirstPivotChecked(h, md, col) == Lt(Abs(At(h, md, 0, 0)), Eps)

\* abs(matrix_data[i][i]) < 1e-10
calculate_IsSingular(h, md, col) == Lt(Abs(At(h, md, col, col)), Eps)

calculate_SingularityCheck ==
    /\ fn = "calculate" /\ pc = "SingularityCheck"
    /\ IF calculate_IsSingular(heap, matrix_data, i)
       THEN /\ pc' = "STOP"
            /\ result' = [result EXCEPT !["calculate"] = Returned(Num(0), <<>>)]
       ELSE /\ pc' = "Eliminate"
            /\ UNCHANGED result
    /\ UNCHANGED <<heap, input, data, mats, ret, nops, fn, divisors, matrix_data, n, i, max_row,
                   row_swaps, determinant, steps>>

calculate_Eliminate ==
    /\ fn = "calculate" /\ pc = "Eliminate"
    /\ LET hd == calculate_ElimCol([h |-> heap, divs |-> divisors], matrix_data, i, i + 1, n)
       IN  /\ heap' = hd.h
           /\ divisors' = hd.divs
    /\ i' = i + 1
    /\ pc' = IF i + 1 < n THEN "PivotSelect" ELSE "DiagonalProduct"
    /\ UNCHANGED <<input, data, mats, ret, nops, fn, matrix_data, n, max_row,
                   row_swaps, determinant, steps, result>>

calculate_DiagonalProduct ==
    /\ fn = "calculate" /\ pc = "DiagonalProduct"
    /\ determinant' = calculate_Product(heap, matrix_data, 0, n, determinant)
    /\ pc' = "SignAdjust"
    /\ UNCHANGED <<heap, input, data, mats, ret, nops, fn, divisors, matrix_data, n, i, max_row,
                   row_swaps, steps, result>>

calculate_SignAdjust ==
    /\ fn = "calculate" /\ pc = "SignAdjust"
    /\ determinant' = calculate_Sign(determinant, row_swaps)
    /\ result' = [result EXCEPT !["calculate"] = Returned(determinant', <<>>)]
    /\ pc' = "Done"
    /\ UNCHANGED <<heap, input, data, mats, ret, nops, fn, divisors, matrix_data, n, i, max_row,
                   row_swaps, steps>>

calculate ==
    \/ calculate_Call
    \/ calculate_Initial
    \/ calculate_PivotSelect
    \/ calculate_RowSwap
    \/ calculate_SingularityCheck
    \/ calculate_Eliminate
    \/ calculate_DiagonalProduct
    \/ calculate_SignAdjust

(***************************************************************************)
(* DeterminantCalculator.calculate_with_steps(matrix).  A line of the      *)
(* trace is <<kind, a, b, values>>: what the line says, the row/column     *)
(* numbers printed in it and the numbers printed in it, each as printed    *)
(* (rounded by its format specification).                                  *)
(***************************************************************************)
Line(kind, a, b, values) == <<kind, a, b, values>>

\* round(n/d) for d > 0, halves away from zero
RoundDiv(num, d) ==
    IF num >= 0 THEN (2 * num + d) \div (2 * d) ELSE -((2 * (-num) + d) \div (2 * d))

\* f"{x:.{digits}f}": x rounded to digits decimal places
Fmt(x, digits) ==
    LET s == x[4] + digits
    IN  IF s >= 0 /\ x[3] = 1 THEN x
        ELSE IF s >= 0 THEN Float(RoundDiv(x[2] * Pow10(s), x[3]), 1, -digits)
        ELSE IF s < -9 THEN Float(0, 1, 0)
        ELSE Float(RoundDiv(x[2], x[3] * Pow10(-s)), 1, -digits)

\* _add_matrix_to_steps(steps, matrix_data): one line per row, entries as 8.3f
RECURSIVE add_matrix_to_steps(_, _, _, _)
add_matrix_to_steps(st, h, md, r) ==
    IF r >= Len(h[md]) THEN st
    ELSE add_matrix_to_steps(
             Append(st, Line("row", r, 0,
                             [c \in 1..Len(h[h[md][r + 1][2]]) |-> Fmt(At(h, md, r, c - 1), 3)])),
             h, md, r + 1)

RECURSIVE steps_FindMaxRow(_, _, _, _, _, _)
steps_FindMaxRow(h, md, col, k, nn, mr) ==
    IF k >= nn THEN mr
    ELSE steps_FindMaxRow(h, md, col, k + 1, nn,
             IF Gt(Abs(At(h, md, k, col)), Abs(At(h, md, mr, col))) THEN k ELSE mr)

\* the loop over j of calculate_with_steps; the state is [h, st, divs]: the heap, the
\* trace and the divisors of the divisions made
RECURSIVE steps_ElimRow(_, _, _, _, _, _, _)
steps_ElimRow(hs, md, col, k, j, nn, factor) ==
    IF j >= nn THEN hs
    ELSE LET h2 == [hs.h EXCEPT ![hs.h[md][k + 1][2]][j + 1] =
                        Sub(At(hs.h, md, k, j), Mul(factor, At(hs.h, md, col, j)))]
             st2 == IF j = col
                    THEN Append(hs.st, Line("row_operation", k + 1, col + 1,
                                            <<Fmt(factor, 4)>>))
                    ELSE hs.st
         IN  steps_ElimRow([hs EXCEPT !.h = h2, !.st = st2], md, col, k, j + 1, nn, factor)

\* the loop over k of calculate_with_steps; the state is [h, st, divs]
RECURSIVE steps_ElimCol(_, _, _, _, _)
steps_ElimCol(hs, md, col, k, nn) ==
    IF k >= nn THEN hs
    ELSE IF Gt(Abs(At(hs.h, md, k, col)), Eps)
         THEN LET factor == Div(At(hs.h, md, k, col), At(hs.h, md, col, col))
                  st1 == Append(hs.st, Line("eliminating", k + 1, 0,
                                   <<At(hs.h, md, k, col), At(hs.h, md, col, col),
                                     Fmt(factor, 4)>>))
                  hs1 == [h |-> hs.h, st |-> st1,
                          divs |-> Append(hs.divs, At(hs.h, md, col, col))]
                  hs2 == steps_ElimRow(hs1, md, col, k, col, nn, factor)
              IN  steps_ElimCol([hs2 EXCEPT !.st = add_matrix_to_steps(hs2.st, hs2.h, md, 0)],
                                md, col, k + 1, nn)
         ELSE steps_ElimCol(hs, md, col, k + 1, nn)

\* for i in range(k, n): diagonal_products.append(matrix_data[i][i]), with its line
RECURSIVE steps_Diagonal(_, _, _, _, _)
steps_Diagonal(h, md, k, nn, ds) ==
    IF k >= nn THEN ds
    ELSE steps_Diagonal(h, md, k + 1, nn,
             [p |-> Append(ds.p, At(h, md, k, k)),
              st |-> Append(ds.st, Line("diagonal_element", k + 1, k + 1, <<At(h, md, k, k)>>))])

\* for i, val in enumerate(diagonal_products): determinant *= val, with its line
RECURSIVE steps_Product(_, _, _)
steps_Product(p, k, ds) ==
    IF k >= Len(p) THEN ds
    ELSE LET det == Mul(ds.det, p[k + 1])
         IN  steps_Product(p, k + 1,
                 [det |-> det,
                  st |-> Append(ds.st, IF k = 0 THEN Line("product_so_far", 0, 0, <<p[k + 1]>>)
                                       ELSE Line("product_so_far", 0, 0, <<det, p[k + 1], det>>))])

\* a mutant: the sign is adjusted when the number of swaps is even
steps_SignEven(det, swaps) == IF swaps % 2 = 0 THEN Neg(det) ELSE det

steps_Sign(det, swaps) == IF swaps % 2 = 1 THEN Neg(det) ELSE det

\* the model makes the two calls in one order: calculate, then calculate_with_steps
steps_Call ==
    /\ CanCall("calculate_with_steps")
    /\ result["calculate"].status # "none"
    /\ fn' = "calculate_with_steps"
    /\ steps' = <<>>
    /\ IF ~Matrix_is_square(mats[1])
       THEN /\ pc' = "Raised"
            /\ result' = [result EXCEPT !["calculate_with_steps"] =
                              Raised("Matrix must be square to calculate determinant")]
       ELSE /\ pc' = "Initial"
            /\ UNCHANGED result
    /\ matrix_data' = 0
    /\ n' = 0
    /\ i' = 0
    /\ max_row' = 0
    /\ row_swaps' = 0
    /\ determinant' = None
    /\ divisors' = <<>>
    /\ UNCHANGED <<heap, input, data, mats, ret, nops>>

steps_Initial ==
    /\ fn = "calculate_with_steps" /\ pc = "Initial"
    /\ LET t == Matrix_to_list(heap, mats[1])
           c == CopyRows(t.h, t.a)
       IN  /\ heap' = c.h
           /\ matrix_data' = c.a
           /\ steps' = add_matrix_to_steps(
                           steps \o <<Line("calculating", mats[1].rows, mats[1].cols, <<>>),
                                      Line("rule", 50, 0, <<>>),
                                      Line("initial_matrix", 0, 0, <<>>)>>,
                           c.h, c.a, 0)
    /\ n' = mats[1].rows
    /\ determinant' = Num(1)
    /\ row_swaps' = 0
    /\ i' = 0
    /\ pc' = IF 0 < mats[1].rows THEN "PivotSelect" ELSE "DiagonalProduct"
    /\ UNCHANGED <<input, data, mats, ret, nops, fn, divisors, max_row, result>>

steps_PivotSelect ==
    /\ fn = "calculate_with_steps" /\ pc = "PivotSelect"
    /\ steps' = Append(steps, Line("step", i + 1, i + 1, <<>>))
    /\ max_row' = steps_FindMaxRow(heap, matrix_data, i, i + 1, n, i)
    /\ pc' = IF max_row' # i THEN "RowSwap" ELSE "SingularityCheck"
    /\ UNCHANGED <<heap, input, data, mats, ret, nops, fn, divisors, matrix_data, n, i,
                   row_swaps, determinant, result>>

steps_RowSwap ==
    /\ fn = "calculate_with_steps" /\ pc = "RowSwap"
    /\ heap' = SwapRows(heap, matrix_data, i, max_row)
    /\ row_swaps' = row_swaps + 1
    /\ steps' = add_matrix_to_steps(
                    Append(steps, Line("swapped", i + 1, max_row + 1, <<Num(row_swaps')>>)),
                    heap', matrix_data, 0)
    /\ pc' = "SingularityCheck"
    /\ UNCHANGED <<input, data, mats, ret, nops, fn, divisors, matrix_data, n, i, max_row,
                   determinant, result>>

\* a mutant: 0.0 and the trace are returned before the two closing lines are appended
SingularityCheckUnreported ==
    /\ fn = "calculate_with_steps" /\ pc = "SingularityCheck"
    /\ IF Lt(Abs(At(heap, matrix_data, i, i)), Eps)
       THEN /\ pc' = "STOP"
            /\ result' = [result EXCEPT !["calculate_with_steps"] = Returned(Num(0), steps)]
            /\ UNCHANGED steps
       ELSE /\ steps' = Append(steps, Line("pivot_element", 0, 0,
                                           <<At(heap, matrix_data, i, i)>>))
            /\ pc' = "Eliminate"
            /\ UNCHANGED result
    /\ UNCHANGED <<heap, input, data, mats, ret, nops, fn, divisors, matrix_data, n, i, max_row,
                   row_swaps, determinant>>

\* abs(matrix_data[i][i]) < 1e-10
steps_IsSingular(h, md, col) == Lt(Abs(At(h, md, col, col)), Eps)

steps_SingularityCheck ==
    /\ fn = "calculate_with_steps" /\ pc = "SingularityCheck"
    /\ IF steps_IsSingular(heap, matrix_data, i)
       THEN /\ steps' = steps \o <<Line("pivot_is_zero", 0, 0, <<>>),
                                   Line("determinant_0", 0, 0, <<>>)>>
            /\ pc' = "STOP"
            /\ result' = [result EXCEPT !["calculate_with_steps"] = Returned(Num(0), steps')]
       ELSE /\ steps' = Append(steps, Line("pivot_element", 0, 0,
                                           <<At(heap, matrix_data, i, i)>>))
            /\ pc' = "Eliminate"
            /\ UNCHANGED result
    /\ UNCHANGED <<heap, input, data, mats, ret, nops, fn, divisors, matrix_data, n, i, max_row,
                   row_swaps, determinant>>

steps_Eliminate ==
    /\ fn = "calculate_with_steps" /\ pc = "Eliminate"
    /\ LET hs == steps_ElimCol([h |-> heap, st |-> steps, divs |-> divisors],
                               matrix_data, i, i + 1, n)
       IN  /\ heap' = hs.h
           /\ steps' = hs.st
           /\ divisors' = hs.divs
    /\ i' = i + 1
    /\ pc' = IF i + 1 < n THEN "PivotSelect" ELSE "DiagonalProduct"
    /\ UNCHANGED <<input, data, mats, ret, nops, fn, matrix_data, n, max_row,
                   row_swaps, determinant, result>>

steps_DiagonalProduct ==
    /\ fn = "calculate_with_steps" /\ pc = "DiagonalProduct"
    /\ LET st1 == Append(add_matrix_to_steps(
                             Append(steps, Line("final_triangular_matrix", 0, 0, <<>>)),
                             heap, matrix_data, 0),
                         Line("calculating_determinant", 0, 0, <<>>))
           ds == steps_Diagonal(heap, matrix_data, 0, n, [p |-> <<>>, st |-> st1])
           pr == steps_Product(ds.p, 0, [det |-> Num(1), st |-> ds.st])
       IN  /\ determinant' = pr.det
           /\ steps' = pr.st
    /\ pc' = "SignAdjust"
    /\ UNCHANGED <<heap, input, data, mats, ret, nops, fn, divisors, matrix_data, n, i, max_row,
                   row_swaps, result>>

steps_SignAdjust ==
    /\ fn = "calculate_with_steps" /\ pc = "SignAdjust"
    /\ determinant' = steps_Sign(determinant, row_swaps)
    /\ steps' = IF row_swaps % 2 = 1
                THEN steps \o <<Line("sign_change", row_swaps, 0, <<>>),
                                Line("final_determinant", 0, 0,
                                     <<Neg(Abs(determinant')), determinant'>>)>>
                ELSE steps \o <<Line("no_sign_change", row_swaps, 0, <<>>),
                                Line("final_determinant", 0, 0, <<determinant'>>)>>
    /\ result' = [result EXCEPT !["calculate_with_steps"] = Returned(determinant', steps')]
    /\ pc' = "Done"
    /\ UNCHANGED <<heap, input, data, mats, ret, nops, fn, divisors, matrix_data, n, i, max_row,
                   row_swaps>>

calculate_with_steps ==
    \/ steps_Call
    \/ steps_Initial
    \/ steps_PivotSelect
    \/ steps_RowSwap
    \/ steps_SingularityCheck
    \/ steps_Eliminate
    \/ steps_DiagonalProduct
    \/ steps_SignAdjust

Next == NewMatrix \/ calculate \/ calculate_with_steps

Spec == Init /\ [][Next]_vars

(***************************************************************************)
(* Inputs around the 1e-10 threshold of the calculator: entries that are   *)
(* 0, below the threshold (5e-11) or above it (1e-9), and matrices that    *)
(* pair an entry below the threshold with a large one.                     *)
(***************************************************************************)
TinyEntries == {Num(0), Float(5, 1, -11), Float(1, 1, -9)}
TinyMatrices(R) == {[r \in 1..R |-> ListRow(row[r])] : row \in SeqsOf(SeqsOf(TinyEntries, R), R)}

\* [[5e-11, 0], [0, 1e20]], [[1, 1e12], [1e-11, 1]] and [[1e-10, 0], [1e-10, 1e20]]
Threshold1 == <<ListRow(<<Float(5, 1, -11), Num(0)>>), ListRow(<<Num(0), Float(1, 1, 20)>>)>>
Threshold2 == <<ListRow(<<Num(1), Float(1, 1, 12)>>), ListRow(<<Float(1, 1, -11), Num(1)>>)>>
Threshold3 == <<ListRow(<<Eps, Num(0)>>), ListRow(<<Eps, Float(1, 1, 20)>>)>>

ThresholdInputs ==
    UNION {TinyMatrices(R) : R \in 1..MaxN} \cup {Threshold1, Threshold2, Threshold3}

ThresholdInit == \E raw \in ThresholdInputs : InitWith(raw)

ThresholdSpec == ThresholdInit /\ [][Next]_vars

(***************************************************************************)
(* A call is synchronous and nothing suspends it: a stage that can run     *)
(* does run.  The calls are followed to their end on the 0/1 matrices of   *)
(* up to MaxN rows, the matrices of up to MaxRel rows with entries around  *)
(* the threshold, and the scenarios.                                       *)
(***************************************************************************)
BinaryMatrices(R) ==
    {[r \in 1..R |-> ListRow(row[r])] : row \in SeqsOf(SeqsOf({Num(0), Num(1)}, R), R)}

FairInputs ==
    UNION {BinaryMatrices(R) : R \in 1..MaxN}
    \cup UNION {TinyMatrices(R) : R \in 1..MaxRel}
    \cup {Scenario1, Scenario2, Scenario3, Threshold1, Threshold2, Threshold3}

FairInit == \E raw \in FairInputs : InitWith(raw)

\* the stages whose step is a test or a sign change of the frame
Checks ==
    \/ calculate_SingularityCheck \/ calculate_SignAdjust
    \/ steps_SingularityCheck \/ steps_SignAdjust

\* the stages whose step rewrites the working copy or the trace
Rewrites == {"Initial", "PivotSelect", "RowSwap", "Eliminate", "DiagonalProduct"}

\* Weak fairness of every stage of a call.  The action of a stage in Rewrites is
\* enabled exactly when pc is at that stage and each of its steps leaves the
\* stage, so its weak fairness is stated as []<>(pc # s).
FairSpec ==
    /\ FairInit /\ [][Next]_vars
    /\ WF_vars(Checks)
    /\ \A s \in Rewrites : []<>(pc # s)

(***************************************************************************)
(* calculate(matrix) as one call, for a caller that compares the results   *)
(* of calls on related matrices: the matrix it has, that matrix with two   *)
(* rows exchanged, and that matrix with one row multiplied by a scalar.    *)
(***************************************************************************)
\* the loop over the pivot columns from col on; the state is [h, divs, swaps, stop]:
\* the heap, the divisors used, row_swaps, and whether the loop returned 0.0
RECURSIVE calculate_Columns(_, _, _, _)
calculate_Columns(st, md, col, nn) ==
    IF col >= nn THEN st
    ELSE LET mr == calculate_FindMaxRow(st.h, md, col, col + 1, nn, col)
             h1 == IF mr # col THEN SwapRows(st.h, md, col, mr) ELSE st.h
             sw == IF mr # col THEN st.swaps + 1 ELSE st.swaps
         IN  IF calculate_IsSingular(h1, md, col)
             THEN [h |-> h1, divs |-> st.divs, swaps |-> sw, stop |-> TRUE]
             ELSE LET hd == calculate_ElimCol([h |-> h1, divs |-> st.divs],
                                              md, col, col + 1, nn)
                  IN  calculate_Columns([h |-> hd.h, divs |-> hd.divs, swaps |-> sw,
                                         stop |-> FALSE], md, col + 1, nn)

\* the heap after calculate(m) and what the call returned or raised
DeterminantCalculator_calculate(h, m) ==
    IF ~Matrix_is_square(m)
    THEN [h |-> h, res |-> Raised("Matrix must be square to calculate determinant")]
    ELSE LET c == Matrix_to_list(h, m)
             l == calculate_Columns([h |-> c.h, divs |-> <<>>, swaps |-> 0, stop |-> FALSE],
                                    c.a, 0, m.rows)
         IN  IF l.stop THEN [h |-> l.h, res |-> Returned(Num(0), <<>>)]
             ELSE [h |-> l.h,
                   res |-> Returned(calculate_Sign(
                                        calculate_Product(l.h, c.a, 0, m.rows, Num(1)),
                                        l.swaps), <<>>)]

\* calculate(matrix) on the caller's Matrix
Calculate ==
    /\ Len(mats) = 1
    /\ result["calculate"].status = "none"
    /\ LET r == DeterminantCalculator_calculate(heap, mats[1])
       IN  /\ heap' = r.h
           /\ result' = [result EXCEPT !["calculate"] = r.res]
    /\ UNCHANGED <<input, data, mats, ret, nops, pc, fn, matrix_data, n, i, max_row,
                   row_swaps, determinant, steps, divisors>>

\* calculate(Matrix(raw)) on new data raw, recorded as the call op
calculate_related(op, raw, row, col, arg) ==
    /\ Len(mats) = 1
    /\ result["calculate"].status = "ok"
    /\ LET d == BuildFrom(heap, raw, 1, <<>>)
           m == Matrix_init(d.h, d.a)
           r == DeterminantCalculator_calculate(m.h, m.mat)
       IN  /\ heap' = r.h
           /\ mats' = Append(mats, m.mat)
           /\ ret' = [op |-> op, status |-> r.res.status, msg |-> r.res.msg,
                      val |-> r.res.val, on |-> 2, row |-> row, col |-> col, arg |-> arg]
    /\ UNCHANGED <<input, data, nops>>
    /\ UNCHANGED frameVars

\* the caller's data with rows a and b exchanged
Exchanged(raw, a, b) == [raw EXCEPT ![a] = raw[b], ![b] = raw[a]]

\* the caller's data with every entry of row r multiplied by s
Scaled(raw, r, s) ==
    [raw EXCEPT ![r] = ListRow([c \in 1..Len(raw[r].items) |-> Mul(s, raw[r].items[c])])]

\* the scalars tried: 0, -1, 0.01 and 100
Scalars == {Num(0), Num(-1), Float(1, 1, -2), Float(1, 1, 2)}

CalculateExchanged ==
    \E a \in 1..Len(input) : \E b \in (a + 1)..Len(input) :
        calculate_related("calculate_exchanged", Exchanged(input, a, b), a - 1, b - 1, None)

CalculateScaled ==
    \E r \in 1..Len(input) : \E s \in Scalars :
        calculate_related("calculate_scaled", Scaled(input, r, s), r - 1, 0, s)

\* the matrices compared: every matrix of up to MaxRel rows with entries in
\* -MaxVal..MaxVal or around the threshold, and the scenarios
RelationInputs ==
    UNION {NumericMatrices(R, R) \cup TinyMatrices(R) : R \in 1..MaxRel}
    \cup {Scenario1, Scenario2, Scenario3, Identity(MaxN), Threshold1, Threshold2, Threshold3}

RelationInit == \E raw \in RelationInputs : InitWith(raw)

RelationNext == NewMatrix \/ Calculate \/ CalculateExchanged \/ CalculateScaled

RelationSpec == RelationInit /\ [][RelationNext]_vars

(***************************************************************************)
(* The Matrix methods as calls made by a caller that holds the Matrix      *)
(* instances mats[1], mats[2], ...  Indices and values are arbitrary:      *)
(* row and col range from -1 to past the end, value over a number, a str   *)
(* and inf.                                                                *)
(***************************************************************************)
Max2(a, b) == IF a > b THEN a ELSE b
\* the indices tried on Matrix m: one below the range, those in range, and those up to
\* the larger dimension (so at least one above the range)
Indices(m) == -1..Max2(m.rows, m.cols)
SetValues == {Num(0), Str, Inf}

Call(op, r, on, row, col, arg, val) ==
    [op |-> op, status |-> r.status, msg |-> r.msg, val |-> val,
     on |-> on, row |-> row, col |-> col, arg |-> arg]

get_element(m, row, col) ==
    /\ nops < MaxOps
    /\ LET r == Matrix_get_element(heap, mats[m], row, col)
       IN  /\ heap' = r.h
           /\ ret' = Call("get_element", r, m, row, col, None, r.val)
    /\ nops' = nops + 1
    /\ UNCHANGED <<input, data, mats>>
    /\ UNCHANGED frameVars

set_element(m, row, col, value) ==
    /\ nops < MaxOps
    /\ LET r == Matrix_set_element(heap, mats[m], row, col, value)
       IN  /\ heap' = r.h
           /\ ret' = Call("set_element", r, m, row, col, value, r.val)
    /\ nops' = nops + 1
    /\ UNCHANGED <<input, data, mats>>
    /\ UNCHANGED frameVars

get_submatrix(m, exclude_row, exclude_col) ==
    /\ nops < MaxOps
    /\ LET r == Matrix_get_submatrix(heap, mats[m], exclude_row, exclude_col)
       IN  /\ heap' = r.h
           /\ mats' = IF r.status = "ok" THEN Append(mats, r.mat) ELSE mats
           /\ ret' = Call("get_submatrix", r, m, exclude_row, exclude_col, None,
                          IF r.status = "ok" THEN <<"matrix", Len(mats) + 1, 1, 0>> ELSE None)
    /\ nops' = nops + 1
    /\ UNCHANGED <<input, data>>
    /\ UNCHANGED frameVars

to_list(m) ==
    /\ nops < MaxOps
    /\ LET r == Matrix_to_list(heap, mats[m])
       IN  /\ heap' = r.h
           /\ ret' = [op |-> "to_list", status |-> "ok", msg |-> "", val |-> Ref(r.a),
                      on |-> m, row |-> 0, col |-> 0, arg |-> None]
    /\ nops' = nops + 1
    /\ UNCHANGED <<input, data, mats>>
    /\ UNCHANGED frameVars

(***************************************************************************)
(* CalculateDeterminantUseCase.validate_matrix_data(matrix_data), which    *)
(* the caller runs on its data before it constructs the Matrix.  It        *)
(* returns (is_valid, error_message).                                      *)
(***************************************************************************)
True == <<"bool", 1, 1, 0>>
False == <<"bool", 0, 1, 0>>

\* a mutant: the row count is not compared with the row length
ValidateWithoutSquare(h, mdata) ==
    LET d == h[mdata]
    IN  IF Len(d) = 0 THEN [valid |-> False, msg |-> "Matrix cannot be empty"]
        ELSE IF \E r \in 1..Len(d) : ~IsList(d[r])
             THEN [valid |-> False, msg |-> "All rows must be lists"]
        ELSE IF \E r \in 1..Len(d) : Len(h[d[r][2]]) # Len(h[d[1][2]])
             THEN [valid |-> False, msg |-> "All rows must have the same length"]
        ELSE IF \E r \in 1..Len(d) : \E c \in 1..Len(h[d[r][2]]) :
                    ~IsNumber(h[d[r][2]][c])
             THEN [valid |-> False, msg |-> "All elements must be numbers"]
        ELSE [valid |-> True, msg |-> ""]

UseCase_validate_matrix_data(h, mdata) ==
    LET d == h[mdata]
    IN  IF Len(d) = 0 THEN [valid |-> False, msg |-> "Matrix cannot be empty"]
        ELSE IF \E r \in 1..Len(d) : ~IsList(d[r])
             THEN [valid |-> False, msg |-> "All rows must be lists"]
        ELSE IF \E r \in 1..Len(d) : Len(h[d[r][2]]) # Len(h[d[1][2]])
             THEN [valid |-> False, msg |-> "All rows must have the same length"]
        ELSE IF \E r \in 1..Len(d) : \E c \in 1..Len(h[d[r][2]]) :
                    ~IsNumber(h[d[r][2]][c])
             THEN [valid |-> False, msg |-> "All elements must be numbers"]
        ELSE IF Len(d) # Len(h[d[1][2]])
             THEN [valid |-> False, msg |-> "Matrix must be square to calculate determinant"]
        ELSE [valid |-> True, msg |-> ""]

ValidateMatrixData ==
    /\ mats = <<>>
    /\ ret.op = ""
    /\ LET v == UseCase_validate_matrix_data(heap, data)
       IN  ret' = [op |-> "validate_matrix_data", status |-> "ok", msg |-> v.msg,
                   val |-> v.valid, on |-> 0, row |-> 0, col |-> 0, arg |-> None]
    /\ UNCHANGED <<heap, input, data, mats, nops>>
    /\ UNCHANGED frameVars

\* The caller's own lists: it keeps the data it passed to Matrix(...) and the list a
\* to_list call has just returned, and may write to them as to any list.
\* lst[row][col] = value on the list of lists at address a
caller_write(a, row, col, value) ==
    /\ nops < MaxOps
    /\ heap' = [heap EXCEPT ![heap[a][row + 1][2]][col + 1] = value]
    /\ ret' = [op |-> "write", status |-> "ok", msg |-> "", val |-> None,
               on |-> a, row |-> row, col |-> col, arg |-> value]
    /\ nops' = nops + 1
    /\ UNCHANGED <<input, data, mats>>
    /\ UNCHANGED frameVars

\* lst.pop() on the list of lists at address a
caller_pop(a) ==
    /\ nops < MaxOps
    /\ Len(heap[a]) > 0
    /\ heap' = [heap EXCEPT ![a] = SubSeq(@, 1, Len(@) - 1)]
    /\ ret' = [op |-> "pop", status |-> "ok", msg |-> "", val |-> None,
               on |-> a, row |-> 0, col |-> 0, arg |-> None]
    /\ nops' = nops + 1
    /\ UNCHANGED <<input, data, mats>>
    /\ UNCHANGED frameVars

\* the lists of lists the caller holds once a Matrix exists
CallerHolds == {data} \cup (IF ret.op = "to_list" THEN {ret.val[2]} ELSE {})
WriteValues == {Num(-1)}

CallerWrite ==
    /\ mats # <<>>
    /\ \E a \in CallerHolds : \E row \in 0..(Len(heap[a]) - 1) :
           /\ IsList(heap[a][row + 1])
           /\ \E col \in 0..(Len(heap[heap[a][row + 1][2]]) - 1), value \in WriteValues :
                  caller_write(a, row, col, value)

CallerPop ==
    /\ mats # <<>>
    /\ \E a \in CallerHolds : caller_pop(a)

\* the raw data handed to Matrix(...): up to MaxRaw rows, a row being a scalar or a
\* list of up to MaxRaw elements, the element at (r, c) being the int 10 r + c or a str;
\* and the well-formed R x C data of up to MaxDim rows and columns
Cell(r, c) == Num(10 * r + c)
RawRows(r) ==
    {[list |-> FALSE, items |-> <<Num(0)>>]}
    \cup UNION {{ListRow([c \in 1..len |-> IF bad[c] THEN Str ELSE Cell(r, c)]) :
                    bad \in [1..len -> BOOLEAN]} : len \in 0..MaxRaw}

RECURSIVE RawOfLen(_)
RawOfLen(R) ==
    IF R = 0 THEN {<<>>}
    ELSE {Append(raw, row) : raw \in RawOfLen(R - 1), row \in RawRows(R)}

RawInputs == UNION {RawOfLen(R) : R \in 0..MaxRaw}

WellFormed(R, C) == [r \in 1..R |-> ListRow([c \in 1..C |-> Cell(r, c)])]
WellFormedInputs == {WellFormed(R, C) : R \in 1..MaxDim, C \in 1..MaxDim}

MatrixInit == \E raw \in RawInputs \cup WellFormedInputs : InitWith(raw)

GetElement ==
    \E m \in 1..Len(mats) : \E row \in Indices(mats[m]), col \in Indices(mats[m]) : get_element(m, row, col)

SetElement ==
    \E m \in 1..Len(mats) : \E row \in Indices(mats[m]), col \in Indices(mats[m]), value \in SetValues :
        set_element(m, row, col, value)

GetSubmatrix ==
    \E m \in 1..Len(mats) : \E row \in Indices(mats[m]), col \in Indices(mats[m]) : get_submatrix(m, row, col)

ToList == \E m \in 1..Len(mats) : to_list(m)

MatrixNext ==
    ValidateMatrixData \/ NewMatrix \/ GetElement \/ SetElement \/ GetSubmatrix \/ ToList \/ CallerWrite \/ CallerPop

MatrixSpec == MatrixInit /\ [][MatrixNext]_vars

(***************************************************************************)
(* Reference definitions for the claims.                                   *)
(***************************************************************************)
\* the rows of the caller's data (when every row is a list)
InputRows == [r \in 1..Len(input) |-> input[r].items]
InputSquare == \A r \in 1..Len(input) : Len(input[r].items) = Len(input)

\* M without its first row and without column c
Minor(M, c) ==
    [r \in 1..(Len(M) - 1) |->
        [k \in 1..(Len(M) - 1) |-> IF k < c THEN M[r + 1][k] ELSE M[r + 1][k + 1]]]

\* the determinant by cofactor expansion along the first row
RECURSIVE Cofactors(_, _)
Cofactors(M, c) ==
    IF Len(M) = 1 THEN M[1][1]
    ELSE LET term == Mul(M[1][c], Cofactors(Minor(M, c), 1))
             signed == IF c % 2 = 1 THEN term ELSE Neg(term)
         IN  IF c = Len(M) THEN signed ELSE Add(signed, Cofactors(M, c + 1))

Determinant(M) == Cofactors(M, 1)

C2_SameResult ==
    (\A f \in Functions : result[f].status # "none")
        => /\ result["calculate"].status = result["calculate_with_steps"].status
           /\ result["calculate"].val = result["calculate_with_steps"].val

\* both have returned a non-zero determinant after an odd number of row swaps
C2_Witness ==
    /\ fn = "calculate_with_steps" /\ pc = "Done"
    /\ row_swaps % 2 = 1
    /\ result["calculate"].status = "ok"
    /\ result["calculate_with_steps"].status = "ok"
    /\ result["calculate_with_steps"].val # Num(0)

(***************************************************************************)
(* C3: calculate and calculate_with_steps never change the Matrix they     *)
(* are given: its contents, row count and column count stay those it was   *)
(* constructed with, and the working copy shares no list with it.          *)
(***************************************************************************)
\* the addresses of the list of lists at a: the outer list and its rows
ListsOf(h, a) == {a} \cup {h[a][r][2] : r \in 1..Len(h[a])}

C3_InputNotMutated ==
    Len(mats) >= 1
        => /\ Rows(heap, mats[1].data) = InputRows
           /\ mats[1].rows = Len(input)
           /\ mats[1].cols = Len(input[1].items)
           /\ matrix_data # 0
                  => ListsOf(heap, matrix_data) \cap ListsOf(heap, mats[1].data) = {}

\* a call has swapped and eliminated rows: the working copy differs from the Matrix
C3_Witness ==
    /\ pc = "Done"
    /\ row_swaps >= 1
    /\ matrix_data # 0
    /\ Rows(heap, matrix_data) # Rows(heap, mats[1].data)

(***************************************************************************)
(* C4: on a Matrix with rows # cols both functions raise the ValueError    *)
(* "Matrix must be square to calculate determinant" (the specification's   *)
(* NotSquareError) before any step runs: no working copy is made, and no   *)
(* number and no trace is returned.                                        *)
(***************************************************************************)
C4_NotSquareRaises ==
    (Len(mats) >= 1 /\ ~InputSquare)
        => /\ pc \in {"idle", "Raised"}
           /\ matrix_data = 0
           /\ \A f \in Functions :
                 /\ result[f].status \in {"none", "ValueError"}
                 /\ result[f].val = None
                 /\ result[f].steps = <<>>
           /\ pc = "Raised"
                  => /\ result[fn].status = "ValueError"
                     /\ result[fn].msg = "Matrix must be square to calculate determinant"

\* both functions have raised on a non-square Matrix
C4_Witness ==
    /\ Len(mats) >= 1 /\ ~InputSquare
    /\ pc = "Raised"
    /\ \A f \in Functions : result[f].status = "ValueError"

(***************************************************************************)
(* The error kinds of the specification.  The program raises ValueError    *)
(* and IndexError; the message tells the kind.                             *)
(***************************************************************************)
ErrorKind(msg) ==
    CASE msg \in {"Matrix cannot be empty", "All rows must be lists",
                  "All rows must have the same length"} -> "InvalidShapeError"
      [] msg = "All elements must be numbers" -> "InvalidElementError"
      [] msg \in {"Index out of bounds", "Exclude indices out of bounds"}
             -> "IndexOutOfRangeError"
      [] msg = "Matrix must be square to calculate determinant" -> "NotSquareError"
      [] OTHER -> "none"

\* the caller's data is empty, has a row that is no list, or rows of unequal lengths
ShapeBad(raw) ==
    \/ Len(raw) = 0
    \/ \E r \in 1..Len(raw) : ~raw[r].list
    \/ \E r \in 1..Len(raw) : Len(raw[r].items) # Len(raw[1].items)

\* some element of some row of the caller's data is no number
ElementBad(raw) ==
    \E r \in 1..Len(raw) : raw[r].list /\ \E c \in 1..Len(raw[r].items) :
        ~IsNumber(raw[r].items[c])

Constructed == ret.op = "Matrix"

(***************************************************************************)
(* C5 as stated: construction fails with InvalidShapeError when the data   *)
(* is empty, a row is no sequence or the rows have unequal lengths, fails  *)
(* with InvalidElementError when any element is no number, produces no     *)
(* Matrix then, and succeeds on every other input.                         *)
(***************************************************************************)
C5_AsStated ==
    Constructed
        => /\ ShapeBad(input) => ErrorKind(ret.msg) = "InvalidShapeError"
           /\ ElementBad(input) => ErrorKind(ret.msg) = "InvalidElementError"
           /\ ret.status # "ok" => mats = <<>>
           /\ (~ShapeBad(input) /\ ~ElementBad(input))
                  => (ret.status = "ok" /\ Len(mats) = 1)

(***************************************************************************)
(* C5 as amended: the shape is checked first, so InvalidElementError is    *)
(* raised when an element is no number and the data is non-empty with      *)
(* every row a list of one length; the rest as stated.                     *)
(***************************************************************************)
C5_ShapeCheckedFirst ==
    Constructed
        => /\ ShapeBad(input)
                  => (ret.status = "ValueError" /\ ErrorKind(ret.msg) = "InvalidShapeError")
           /\ (~ShapeBad(input) /\ ElementBad(input))
                  => (ret.status = "ValueError" /\ ErrorKind(ret.msg) = "InvalidElementError")
           /\ ret.status # "ok" => mats = <<>>
           /\ (~ShapeBad(input) /\ ~ElementBad(input))
                  => /\ ret.status = "ok"
                     /\ Len(mats) = 1
                     /\ mats[1].rows = Len(input)
                     /\ mats[1].cols = Len(input[1].items)
                     /\ Rows(heap, mats[1].data) = InputRows

\* construction has raised the element error on two rows of equal length
C5_Witness ==
    /\ Constructed
    /\ Len(input) = 2
    /\ ~ShapeBad(input) /\ ElementBad(input)
    /\ ret.status = "ValueError"
    /\ ret.msg = "All elements must be numbers"

(***************************************************************************)
(* C6 as stated: every constructed Matrix has R >= 1 rows and C >= 1       *)
(* columns, every row holding C elements, and no call changes R or C.      *)
(***************************************************************************)
Rectangular(h, m) ==
    /\ Len(h[m.data]) = m.rows
    /\ \A r \in 1..Len(h[m.data]) : Len(h[h[m.data][r][2]]) = m.cols

C6_Dimensions ==
    [][\A k \in 1..Len(mats') :
          /\ mats'[k].rows >= 1
          /\ mats'[k].cols >= 1
          /\ Rectangular(heap', mats'[k])
          /\ k <= Len(mats) => (mats'[k].rows = mats[k].rows /\ mats'[k].cols = mats[k].cols)
      ]_vars

(***************************************************************************)
(* C7 as stated: after construction and any sequence of set_element        *)
(* calls, every stored element is a finite real number.                    *)
(***************************************************************************)
C7_ElementsFinite ==
    \A k \in 1..Len(mats) : \A r \in 1..Len(heap[mats[k].data]) :
        \A c \in 1..Len(heap[heap[mats[k].data][r][2]]) :
            IsFinite(heap[heap[mats[k].data][r][2]][c])

(***************************************************************************)
(* C8 as stated: get_submatrix with in-range indices on a Matrix with      *)
(* R <= 1 or C <= 1 fails with InvalidShapeError, and get_submatrix never  *)
(* returns a Matrix with zero rows or zero columns.                        *)
(***************************************************************************)
C8_NoEmptySubmatrix ==
    ret.op = "get_submatrix"
        => /\ (/\ InBounds(mats[ret.on], ret.row, ret.col)
               /\ (mats[ret.on].rows <= 1 \/ mats[ret.on].cols <= 1))
                  => (ret.status = "ValueError" /\ ErrorKind(ret.msg) = "InvalidShapeError")
           /\ ret.status = "ok"
                  => (mats[Len(mats)].rows >= 1 /\ mats[Len(mats)].cols >= 1)

(***************************************************************************)
(* C9: on a Matrix with R >= 2 and C >= 2, get_submatrix with in-range     *)
(* indices returns a new (R-1) x (C-1) Matrix holding the source entries   *)
(* without that row and column, in order; the source is unchanged; the     *)
(* two share no list, and a set_element on one Matrix changes no other.    *)
(***************************************************************************)
\* M without row er and column ec (counted from 0)
Deleted(M, er, ec) ==
    [r \in 1..(Len(M) - 1) |->
        [c \in 1..(Len(M[1]) - 1) |->
            M[IF r <= er THEN r ELSE r + 1][IF c <= ec THEN c ELSE c + 1]]]

C9_Submatrix ==
    [][/\ (/\ ret'.op = "get_submatrix"
           /\ InBounds(mats[ret'.on], ret'.row, ret'.col)
           /\ mats[ret'.on].rows >= 2 /\ mats[ret'.on].cols >= 2)
              => /\ ret'.status = "ok"
                 /\ Len(mats') = Len(mats) + 1
                 /\ LET src == mats[ret'.on]
                        sub == mats'[Len(mats')]
                    IN  /\ sub.rows = src.rows - 1
                        /\ sub.cols = src.cols - 1
                        /\ Rows(heap', sub.data)
                               = Deleted(Rows(heap, src.data), ret'.row, ret'.col)
                        /\ Rows(heap', src.data) = Rows(heap, src.data)
                        /\ \A k \in 1..Len(mats) :
                               ListsOf(heap', sub.data) \cap ListsOf(heap', mats[k].data) = {}
       /\ ret'.op = "set_element"
              => \A k \in 1..Len(mats) :
                     k # ret'.on => Rows(heap', mats[k].data) = Rows(heap, mats[k].data)
      ]_vars

\* set_element has changed an entry of the 2 x 2 submatrix of a 3 x 3 Matrix
C9_Witness ==
    /\ Len(mats) = 2
    /\ mats[1].rows = 3 /\ mats[1].cols = 3
    /\ mats[2].rows = 2 /\ mats[2].cols = 2
    /\ ret.op = "set_element" /\ ret.status = "ok" /\ ret.on = 2
    /\ Rows(heap, mats[1].data) = InputRows

(***************************************************************************)
(* C10: get_element, set_element and get_submatrix raise IndexError (the   *)
(* specification's IndexOutOfRangeError) exactly when row is outside       *)
(* [0, R) or col is outside [0, C); a failing call leaves the contents     *)
(* unchanged; a successful set_element changes the element at (row, col)   *)
(* only, and a following get_element(row, col) returns it.                 *)
(***************************************************************************)
Indexed == {"get_element", "set_element", "get_submatrix"}

C10_IndexChecks ==
    [][/\ ret'.op \in Indexed
              => /\ ret'.status = "IndexError"
                        <=> ~(/\ 0 <= ret'.row /\ ret'.row < mats[ret'.on].rows
                              /\ 0 <= ret'.col /\ ret'.col < mats[ret'.on].cols)
                 /\ ret'.status = "IndexError"
                        => (ErrorKind(ret'.msg) = "IndexOutOfRangeError" /\ heap' = heap)
                 /\ ret'.status # "ok"
                        => /\ mats' = mats
                           /\ \A k \in 1..Len(mats) :
                                  Rows(heap', mats[k].data) = Rows(heap, mats[k].data)
       /\ (ret'.op = "set_element" /\ ret'.status = "ok")
              => /\ mats' = mats
                 /\ \A k \in 1..Len(mats) : \A r \in 1..mats[k].rows : \A c \in 1..mats[k].cols :
                        Rows(heap', mats[k].data)[r][c]
                            = IF k = ret'.on /\ r = ret'.row + 1 /\ c = ret'.col + 1
                              THEN ret'.arg
                              ELSE Rows(heap, mats[k].data)[r][c]
       /\ (/\ ret.op = "set_element" /\ ret.status = "ok"
           /\ ret'.op = "get_element"
           /\ ret'.on = ret.on /\ ret'.row = ret.row /\ ret'.col = ret.col)
              => (ret'.status = "ok" /\ ret'.val = ret.arg)
      ]_vars

\* get_element has returned the str that a set_element stored at (2, 1) of a 3 x 3 Matrix
C10_Witness ==
    /\ ret.op = "get_element" /\ ret.status = "ok"
    /\ ret.row = 2 /\ ret.col = 1
    /\ mats[ret.on].rows = 3
    /\ ret.val = Str

(***************************************************************************)
(* C11: the lists of a Matrix are its own: they are none of the caller's   *)
(* lists (the data passed to the constructor, a list returned by to_list), *)
(* so a write to the caller's data or to a to_list result leaves every     *)
(* Matrix as it was; constructing a Matrix leaves the caller's data as it  *)
(* was; and the contents of a Matrix change in a successful set_element    *)
(* on that Matrix only.                                                    *)
(***************************************************************************)
\* the lists reached from the caller's list at a: the outer list and its list rows
CallerLists(h, a) == {a} \cup {h[a][r][2] : r \in {q \in 1..Len(h[a]) : IsList(h[a][q])}}

\* the contents of the caller's list at a, a row that is no list standing for itself
CallerContents(h, a) ==
    [r \in 1..Len(h[a]) |-> IF IsList(h[a][r]) THEN h[h[a][r][2]] ELSE <<h[a][r]>>]

C11_NotAliased ==
    [][/\ \A k \in 1..Len(mats) :
              Rows(heap', mats[k].data) # Rows(heap, mats[k].data)
                  => (ret'.op = "set_element" /\ ret'.status = "ok" /\ ret'.on = k)
       /\ ret'.op \in {"Matrix", "get_submatrix", "to_list", "get_element", "set_element"}
              => CallerContents(heap', data) = CallerContents(heap, data)
       /\ \A k \in 1..Len(mats') :
              /\ ListsOf(heap', mats'[k].data) \cap CallerLists(heap', data) = {}
              /\ ret'.op = "to_list"
                     => ListsOf(heap', mats'[k].data) \cap CallerLists(heap', ret'.val[2]) = {}
      ]_vars

\* the caller has written to a row of the list a to_list returned, and the Matrix
\* still holds the data it was constructed from
C11_Witness ==
    /\ ret.op = "write" /\ ret.on # data
    /\ Len(mats) = 1 /\ mats[1].rows = 3
    /\ Rows(heap, ret.on) # Rows(heap, mats[1].data)
    /\ Rows(heap, mats[1].data) = InputRows

(***************************************************************************)
(* C12: on a square matrix with an all-zero row or two identical rows      *)
(* calculate returns 0 and raises nothing; calculate([[1,2],[2,4]]) = 0.   *)
(***************************************************************************)
ZeroRow(M) == \E r \in 1..Len(M) : \A c \in 1..Len(M[r]) : M[r][c] = Num(0)
IdenticalRows(M) == \E a \in 1..Len(M) : \E b \in (a + 1)..Len(M) : M[a] = M[b]

C13_ExchangeNegates ==
    ret.op = "calculate_exchanged"
        => /\ ret.status = "ok"
           /\ ret.val = Neg(result["calculate"].val)

(***************************************************************************)
(* C14 as stated: for every square matrix M, row r and scalar s, with      *)
(* M_scaled the matrix M with row r multiplied by s,                       *)
(* calculate(M_scaled) = s * calculate(M), also when a pivot is below      *)
(* 1e-10.                                                                  *)
(***************************************************************************)
C14_ScalingScales ==
    ret.op = "calculate_scaled"
        => /\ ret.status = "ok"
           /\ ret.val = Mul(ret.arg, result["calculate"].val)

(***************************************************************************)
(* C15: validate_matrix_data(data) returns (True, "") exactly when         *)
(* Matrix(data) constructs and the Matrix is square, and (False, message)  *)
(* otherwise; it raises nothing, constructs no Matrix and changes no       *)
(* list; and the construction that follows it succeeds with a square       *)
(* Matrix exactly when it returned True.                                   *)
(***************************************************************************)
C15_ValidateAgrees ==
    [][/\ ret'.op = "validate_matrix_data"
              => /\ ret'.status = "ok"
                 /\ ret'.val \in {True, False}
                 /\ ret'.val = True
                        <=> /\ Matrix_init(heap, data).status = "ok"
                            /\ Matrix_is_square(Matrix_init(heap, data).mat)
                 /\ ret'.val = False <=> ret'.msg # ""
                 /\ mats' = mats /\ heap' = heap
       /\ (ret.op = "validate_matrix_data" /\ ret'.op = "Matrix")
              => (ret.val = True
                     <=> (ret'.status = "ok" /\ Len(mats') = 1 /\ mats'[1].rows = mats'[1].cols))
      ]_vars

\* validate_matrix_data has returned False on well-formed 2 x 3 data, from which a
\* Matrix can be constructed
C15_Witness ==
    /\ ret.op = "validate_matrix_data"
    /\ ret.val = False
    /\ ret.msg = "Matrix must be square to calculate determinant"
    /\ Len(input) = 2 /\ Len(input[1].items) = 3
    /\ Matrix_init(heap, data).status = "ok"

(***************************************************************************)
(* C16: when calculate_with_steps finds |pivot| < 1e-10 at column i it     *)
(* returns (0, trace) there: no later column is processed; the trace       *)
(* begins with the header and the snapshot of the input, holds one step    *)
(* header for each of the columns 0..i in order, a pivot line for each of  *)
(* the columns before i, one swap notice for each swap made (that of       *)
(* column i after its step header), and ends with the zero-pivot line and  *)
(* "Determinant = 0"; it has no final-triangular, diagonal, product or     *)
(* sign line.                                                              *)
(***************************************************************************)
IsStepLine(l) == l[1] = "step"
IsSwapLine(l) == l[1] = "swapped"
IsPivotLine(l) == l[1] = "pivot_element"

\* the lines written once the elimination loop has ended
ClosingKinds ==
    {"final_triangular_matrix", "calculating_determinant", "diagonal_element",
     "product_so_far", "sign_change", "no_sign_change", "final_determinant"}

\* the position of the header of column c (counted from 1) in trace st
StepPos(st, c) == CHOOSE p \in 1..Len(st) : st[p] = Line("step", c, c, <<>>)

C16_SingularTrace ==
    /\ (fn = "calculate_with_steps" /\ pc = "Eliminate")
           => ~Lt(Abs(At(heap, matrix_data, i, i)), Eps)
    /\ (fn = "calculate_with_steps" /\ pc = "STOP")
           => /\ Lt(Abs(At(heap, matrix_data, i, i)), Eps)
              /\ i < n
              /\ result["calculate_with_steps"] = Returned(Num(0), steps)
              /\ Len(steps) >= 3 + n + 3
              /\ steps[1] = Line("calculating", n, n, <<>>)
              /\ steps[3] = Line("initial_matrix", 0, 0, <<>>)
              /\ \A r \in 1..n :
                     steps[3 + r] = Line("row", r - 1, 0,
                                         [c \in 1..n |-> Fmt(InputRows[r][c], 3)])
              /\ SelectSeq(steps, IsStepLine) = [c \in 1..(i + 1) |-> Line("step", c, c, <<>>)]
              /\ Len(SelectSeq(steps, IsPivotLine)) = i
              /\ \A c \in 1..i :
                     \E p \in (StepPos(steps, c) + 1)..(StepPos(steps, c + 1) - 1) :
                         IsPivotLine(steps[p])
              /\ Len(SelectSeq(steps, IsSwapLine)) = row_swaps
              /\ (\E p \in (StepPos(steps, i + 1) + 1)..Len(steps) : IsSwapLine(steps[p]))
                     <=> max_row # i
              /\ max_row # i
                     => steps[StepPos(steps, i + 1) + 1]
                            = Line("swapped", i + 1, max_row + 1, <<Num(row_swaps)>>)
              /\ steps[Len(steps) - 1] = Line("pivot_is_zero", 0, 0, <<>>)
              /\ steps[Len(steps)] = Line("determinant_0", 0, 0, <<>>)
              /\ \A p \in 1..Len(steps) : steps[p][1] \notin ClosingKinds

\* calculate_with_steps has returned 0 at the second of three columns, on a pivot that
\* is below the threshold but not 0, right after a swap
C16_Witness ==
    /\ fn = "calculate_with_steps" /\ pc = "STOP"
    /\ n = 3 /\ i = 1 /\ max_row = 2
    /\ At(heap, matrix_data, i, i) # Num(0)
    /\ result["calculate_with_steps"].status = "ok"

(***************************************************************************)
(* C17: a call on a square matrix goes through Initial, then for           *)
(* i = 0, 1, ..., n-1 PivotSelect, RowSwap (when max_row # i),             *)
(* SingularityCheck and Eliminate, then DiagonalProduct, SignAdjust and    *)
(* Done; it leaves this order at SingularityCheck only, for STOP, exactly  *)
(* when the pivot is below 1e-10; and every call that has started reaches  *)
(* Done or STOP.                                                           *)
(***************************************************************************)
Terminal == {"Done", "STOP", "Raised"}

StageStep ==
    /\ pc = "idle" => pc' \in {"idle", "Initial", "Raised"}
    /\ pc \in Terminal => (pc' \in {"Initial", "Raised"} /\ fn' # fn)
    /\ pc \notin Terminal \cup {"idle"} => fn' = fn
    /\ pc' = "Raised" => mats[1].rows # mats[1].cols
    /\ pc' = "Initial" => mats[1].rows = mats[1].cols
    /\ pc = "Initial" => (pc' = "PivotSelect" /\ i' = 0 /\ n' = mats[1].rows)
    /\ pc = "PivotSelect"
           => /\ i' = i
              /\ pc' = IF max_row' # i THEN "RowSwap" ELSE "SingularityCheck"
    /\ pc = "RowSwap" => (pc' = "SingularityCheck" /\ i' = i)
    /\ pc = "SingularityCheck"
           => /\ i' = i
              /\ pc' = IF Lt(Abs(At(heap, matrix_data, i, i)), Eps) THEN "STOP" ELSE "Eliminate"
    /\ pc = "Eliminate"
           => /\ i' = i + 1
              /\ pc' = IF i + 1 < n THEN "PivotSelect" ELSE "DiagonalProduct"
    /\ pc = "DiagonalProduct" => (pc' = "SignAdjust" /\ i = n /\ i' = i)
    /\ pc = "SignAdjust" => (pc' = "Done" /\ result'[fn].status = "ok")
    /\ pc' = "STOP" => (pc = "SingularityCheck" /\ result'[fn].status = "ok")

C17_StageOrder ==
    /\ [][StageStep]_vars
    /\ \A f \in Functions :
           (fn = f /\ pc = "Initial") ~> (fn = f /\ pc \in {"Done", "STOP"})

\* calculate_with_steps has reached Done on a 3 x 3 matrix after two row swaps
C17_Witness ==
    /\ fn = "calculate_with_steps" /\ pc = "Done"
    /\ n = 3 /\ i = 3 /\ row_swaps = 2

(***************************************************************************)
(* C18: at pivot column i the search selects the lowest row index in       *)
(* i..n-1 whose entry in column i has the largest absolute value among     *)
(* the rows i..n-1 of the working matrix; rows i and max_row are exchanged *)
(* and the counter of row swaps goes up by exactly one if and only if      *)
(* max_row # i; and so, when the pivot is tested, |m[i][i]| >= |m[k][i]|   *)
(* for every k in i+1..n-1.                                                *)
(***************************************************************************)
ColAbs(k) == Abs(At(heap, matrix_data, k, i))

LowestLargest(mr) ==
    /\ mr \in i..(n - 1)
    /\ \A k \in i..(n - 1) : ~Lt(ColAbs(mr), ColAbs(k))
    /\ \A k \in i..(mr - 1) : Lt(ColAbs(k), ColAbs(mr))

RowsExchanged(a, b) ==
    LET old == Rows(heap, matrix_data)
    IN  Rows(heap', matrix_data') = [old EXCEPT ![a + 1] = old[b + 1], ![b + 1] = old[a + 1]]

PivotStep ==
    /\ pc = "PivotSelect"
           => /\ LowestLargest(max_row')
              /\ pc' = IF max_row' # i THEN "RowSwap" ELSE "SingularityCheck"
              /\ Rows(heap', matrix_data') = Rows(heap, matrix_data)
              /\ row_swaps' = row_swaps
    /\ pc = "RowSwap"
           => /\ max_row # i /\ max_row' = max_row
              /\ RowsExchanged(i, max_row)
              /\ row_swaps' = row_swaps + 1
    /\ pc \in {"SingularityCheck", "Eliminate", "DiagonalProduct", "SignAdjust"}
           => row_swaps' = row_swaps
    /\ pc' = "SingularityCheck"
           => \A k \in (i' + 1)..(n' - 1) :
                  ~Lt(Abs(At(heap', matrix_data', i', i')), Abs(At(heap', matrix_data', k, i')))

C18_PivotSelection == [][PivotStep]_vars

\* calculate has exchanged rows 1 and 2 of a 3 x 3 matrix for the second column, where
\* row 2 holds the largest entry and the search started below the diagonal entry
C18_Witness ==
    /\ fn = "calculate" /\ pc = "SingularityCheck"
    /\ n = 3 /\ i = 1 /\ max_row = 2 /\ row_swaps = 2
    /\ Lt(Abs(At(heap, matrix_data, 2, 1)), Abs(At(heap, matrix_data, 1, 1)))

(***************************************************************************)
(* C19: while pivot column i is processed, every entry of the working      *)
(* matrix strictly below the diagonal in the columns 0..i-1 is zero; when  *)
(* the loop has completed without the singular return the working matrix   *)
(* is upper-triangular, and the product of its diagonal is its             *)
(* determinant.                                                            *)
(***************************************************************************)
ZeroBelowDiagonal(cols) ==
    \A c \in 0..(cols - 1) : \A k \in (c + 1)..(n - 1) :
        At(heap, matrix_data, k, c) = Num(0)

C19_UpperTriangular ==
    /\ pc \in {"PivotSelect", "RowSwap", "SingularityCheck", "Eliminate"}
           => ZeroBelowDiagonal(i)
    /\ pc \in {"DiagonalProduct", "SignAdjust", "Done"}
           => ZeroBelowDiagonal(n)
    /\ pc = "SignAdjust"
           => determinant = Determinant(Rows(heap, matrix_data))

(***************************************************************************)
(* C20: in calculate and calculate_with_steps the factor                   *)
(* matrix_data[k][i] / matrix_data[i][i] is computed only when             *)
(* |matrix_data[i][i]| >= 1e-10: the elimination of a column is entered    *)
(* with such a pivot only, and no division made by a call has a divisor    *)
(* that is zero or below the threshold.                                    *)
(***************************************************************************)
C20_DivisorAboveThreshold ==
    /\ pc = "Eliminate" => ~Lt(Abs(At(heap, matrix_data, i, i)), Eps)
    /\ \A d \in 1..Len(divisors) :
           /\ divisors[d] # Num(0)
           /\ ~Lt(Abs(divisors[d]), Eps)

\* calculate_with_steps has eliminated both columns of a 3 x 3 matrix with three
\* divisions, the last of them by a pivot of 1e-9
C20_Witness ==
    /\ fn = "calculate_with_steps" /\ pc = "DiagonalProduct"
    /\ n = 3 /\ Len(divisors) = 3
    /\ Abs(divisors[3]) = Float(1, 1, -9)

====
